---- MODULE Spec2Model ----
(***************************************************************************)
(* Rule engine of the data-access gateway: the validator registry, the     *)
(* rule compiler (load / add / set / instantiateValidators) and the rule   *)
(* matcher (validate) of src/src/ruler/ruler_v2.ts, with the built-in      *)
(* validator handlers it runs.                                             *)
(*                                                                         *)
(* JSON-like values are tagged records: [t |-> "undef"], [t |-> "null"],   *)
(* [t |-> "bool", v |-> b], [t |-> "num", v |-> n], [t |-> "str", v |-> s],*)
(* [t |-> "arr", v |-> <<values>>], [t |-> "obj", v |-> <<[k, v] pairs>>]. *)
(* A JavaScript object is the sequence of its own properties in            *)
(* enumeration order.                                                      *)
(***************************************************************************)
EXTENDS Integers, Sequences, FiniteSets, TLC

VARIABLES
    validators,   \* Ruler.validators: the registry, name -> handler
    rules,        \* Ruler.rules: the compiled table, collection -> CollectionRule
    op,           \* the last register / load / add / set call and how it ended
    call,         \* the validate call in flight (or finished): its locals
    regOrder,     \* the names register accepted, in the order of the calls
    nops,         \* register / load / add / set calls made so far
    ncalls,       \* validate calls started so far
    prev,         \* the request of the call as its caller built it, and
                  \* what the first call made with it returned
    documents,    \* the documents execute added to the collection c1
    requests      \* the execute calls in flight: where each stands, and
                  \* the validate call it made

vars == <<validators, rules, op, call, regOrder, nops, ncalls, prev, documents, requests>>

----------------------------------------------------------------------------
\* Bounds of the model.

MaxOps == 2
MaxCalls == 1
MaxRepeats == 1

\* The largest number a request carries as field value.
MaxNumber == 5

----------------------------------------------------------------------------
\* JSON-like values.

Undef == [t |-> "undef"]
Null == [t |-> "null"]
Bool(b) == [t |-> "bool", v |-> b]
Num(n) == [t |-> "num", v |-> n]
Str(s) == [t |-> "str", v |-> s]
Arr(s) == [t |-> "arr", v |-> s]
Obj(s) == [t |-> "obj", v |-> s]
KV(k, v) == [k |-> k, v |-> v]

\* JavaScript truthiness of a value.
Truthy(x) ==
    CASE x.t = "undef" -> FALSE
      [] x.t = "null" -> FALSE
      [] x.t = "bool" -> x.v
      [] x.t = "num" -> x.v # 0
      [] x.t = "str" -> x.v # ""
      [] OTHER -> TRUE

----------------------------------------------------------------------------
\* JavaScript objects: own properties in enumeration order.  Property names
\* that are canonical array indices enumerate first, in ascending numeric
\* order; the other names follow in insertion order.

KeyIndex == ("3" :> 3) @@ ("7" :> 7)

IsIndexKey(k) == k \in DOMAIN KeyIndex

ObjHas(o, k) == \E i \in 1..Len(o) : o[i].k = k

ObjKeys(o) == [i \in 1..Len(o) |-> o[i].k]

\* o[k] for an own property k.
ObjGet(o, k) == o[CHOOSE i \in 1..Len(o) : o[i].k = k].v

InsertAt(o, pos, e) == SubSeq(o, 1, pos) \o <<e>> \o SubSeq(o, pos + 1, Len(o))

\* o[k] = v
ObjSet(o, k, v) ==
    IF ObjHas(o, k)
    THEN [i \in 1..Len(o) |-> IF o[i].k = k THEN KV(k, v) ELSE o[i]]
    ELSE IF IsIndexKey(k)
    THEN InsertAt(o, Cardinality({i \in 1..Len(o) :
                        IsIndexKey(o[i].k) /\ KeyIndex[o[i].k] < KeyIndex[k]}),
                  KV(k, v))
    ELSE Append(o, KV(k, v))

\* Names every plain object inherits from Object.prototype (non-enumerable).
ObjectPrototypeKeys == {"toString", "constructor"}

\* Whether o[k] is truthy when every own value of o is truthy: own
\* properties first, then the prototype chain.
LookupTruthy(o, k) == ObjHas(o, k) \/ k \in ObjectPrototypeKeys

\* o[k] for a rule object whose own values are JSON-like values; undefined
\* when k is no own property.
RawGet(o, k) == IF ObjHas(o, k) THEN ObjGet(o, k) ELSE Undef

----------------------------------------------------------------------------
\* The request and its context.

\* ActionType: the action tokens of a request.
ActionType ==
    [READ |-> "database.queryDocument", UPDATE |-> "database.updateDocument",
     ADD |-> "database.addDocument", REMOVE |-> "database.deleteDocument",
     COUNT |-> "database.countDocument", WATCH |-> "database.watchDocument"]

ActionTokens == {ActionType[f] : f \in DOMAIN ActionType}

\* PermissionType: the keys of a CollectionRule an action can select.
PermissionType ==
    [READ |-> "read", UPDATE |-> "update", ADD |-> "add", REMOVE |-> "remove",
     COUNT |-> "count", WATCH |-> "watch"]

\* The update operators a data mapping may carry at top level.
UPDATE_COMMANDS ==
    {"$set", "$inc", "$push", "$pull", "$unset", "$pop", "$mul", "$rename",
     "$min", "$max", "$each"}

\* What a field check produces: null (kind "null"), a non-match message
\* (kind "msg") or a raised error (kind "throw"); the request data as the
\* run left it; the number of accessor.get calls it made.
Pass(data, gets) == [kind |-> "null", msg |-> "", data |-> data, gets |-> gets]
Fail(msg, data, gets) == [kind |-> "msg", msg |-> msg, data |-> data, gets |-> gets]
Throw(msg, data, gets) == [kind |-> "throw", msg |-> msg, data |-> data, gets |-> gets]

----------------------------------------------------------------------------
\* Expression evaluation (vm.Script(source).runInNewContext(global)) for the
\* expressions the rule sources of this model use.  The result is
\* [ok |-> the script ran, v |-> truthiness of its value].

HasVar(global, name) == ObjHas(global, name)

\* == of two primitive values of the same type; null == undefined.
LooseEq(a, b) ==
    \/ a.t \in {"undef", "null"} /\ b.t \in {"undef", "null"}
    \/ a.t = b.t /\ a.t \in {"bool", "num", "str"} /\ a.v = b.v

execScript(source, global) ==
    CASE source = "true" -> [ok |-> TRUE, v |-> TRUE]
      [] source = "false" -> [ok |-> TRUE, v |-> FALSE]
      [] source = "$admin" ->
            IF HasVar(global, "$admin")
            THEN [ok |-> TRUE, v |-> Truthy(ObjGet(global, "$admin"))]
            ELSE [ok |-> FALSE, v |-> FALSE]
      [] source = "$userid == $value" ->
            IF HasVar(global, "$userid") /\ HasVar(global, "$value")
            THEN [ok |-> TRUE,
                  v |-> LooseEq(ObjGet(global, "$userid"), ObjGet(global, "$value"))]
            ELSE [ok |-> FALSE, v |-> FALSE]
      [] source = "multi" ->
            IF HasVar(global, "multi")
            THEN [ok |-> TRUE, v |-> Truthy(ObjGet(global, "multi"))]
            ELSE [ok |-> FALSE, v |-> FALSE]
      [] OTHER -> [ok |-> FALSE, v |-> FALSE]   \* a syntax error

----------------------------------------------------------------------------
\* The accessor port: get(collection, {key: value}) over the documents of
\* ctx.db, a set of <<collection, key, value>> facts.

AccessorGet(db, collection, key, value) == <<collection, key, value>> \in db

----------------------------------------------------------------------------
\* Field rules (validateField / _validate / flattenData).

RULE_KEYS ==
    {"required", "in", "default", "length", "number", "unique", "match",
     "exists", "condition"}

RECURSIVE ObjSetAll(_, _)
ObjSetAll(result, kvs) ==
    IF kvs = <<>> THEN result
    ELSE ObjSetAll(ObjSet(result, Head(kvs).k, Head(kvs).v), Tail(kvs))

RECURSIVE flattenFrom(_, _)
flattenFrom(kvs, result) ==
    IF kvs = <<>> THEN result
    ELSE LET e == Head(kvs) IN
         IF e.k \notin UPDATE_COMMANDS
         THEN flattenFrom(Tail(kvs), ObjSet(result, e.k, e.v))
         ELSE flattenFrom(Tail(kvs),
                          ObjSetAll(result, IF e.v.t = "obj" THEN e.v.v ELSE <<>>))

\* flattenData(data): data with its operator sub-mappings merged one level up.
flattenData(data) == flattenFrom(IF data.t = "obj" THEN data.v ELSE <<>>, <<>>)

\* The "/coll/key" strings of `exists` rules, split at "/".
ExistsPath == ("/users/id" :> <<"", "users", "id">>) @@ ("users.id" :> <<"users.id">>)

\* Length of the strings this model uses as field values.
StrLen == ("" :> 0) @@ ("t1" :> 2) @@ ("t2" :> 2) @@ ("Title" :> 5)

\* The <<pattern, string>> pairs for which new RegExp(pattern).test(string).
RegExpMatches == {<<"^t", "t1">>, <<"^t", "t2">>}

\* value as a number in a comparison (NaN is absent: the comparison is
\* false); strings other than "" are not used as numbers in this model.
IsNumeric(x) == x.t \in {"num", "null", "bool"} \/ (x.t = "str" /\ x.v = "")
ToNumber(x) ==
    CASE x.t = "num" -> x.v
      [] x.t = "bool" -> IF x.v THEN 1 ELSE 0
      [] OTHER -> 0

\* String(x) of a primitive, as Array.prototype.join renders it.
ValueToString(x) ==
    CASE x.t = "str" -> x.v
      [] x.t = "num" -> ToString(x.v)
      [] x.t = "bool" -> IF x.v THEN "true" ELSE "false"
      [] OTHER -> ""

RECURSIVE Join(_)
Join(arr) ==
    IF arr = <<>> THEN ""
    ELSE IF Len(arr) = 1 THEN ValueToString(arr[1])
    ELSE ValueToString(arr[1]) \o "," \o Join(Tail(arr))

\* Array.prototype.includes: primitives by value, objects by identity.
Includes(arr, x) ==
    \E i \in 1..Len(arr) : arr[i].t = x.t /\ x.t \notin {"obj", "arr"} /\ arr[i] = x

\* A mutant of _validate: the max of a number rule is exclusive.
_validateExclusiveMax(ruleName, ruleOptions, field, flat, data, ctx) ==
    LET value == RawGet(flat, field) IN
    CASE ruleName \notin RULE_KEYS ->
            Fail("config error: unknown rule [" \o ruleName \o "]", data, 0)
      [] ruleName = "condition" ->
            LET global == ObjSet(ctx.injections, "$value", value)
                r == execScript(ValueToString(ruleOptions), global)
            IN IF ~r.ok THEN Throw("script error", data, 0)
               ELSE IF ~r.v THEN Fail("condition evaluted to false", data, 0)
               ELSE Pass(data, 0)
      [] ruleName = "in" ->
            IF ruleOptions.t # "arr"
            THEN Fail("config error: " \o field \o "#in must be an array", data, 0)
            ELSE IF ~Includes(ruleOptions.v, value)
            THEN Fail(field \o " should equal to one of [" \o Join(ruleOptions.v) \o "]", data, 0)
            ELSE Pass(data, 0)
      [] ruleName = "length" ->
            IF ~(ruleOptions.t = "arr" /\ Len(ruleOptions.v) > 0)
            THEN Fail("config error: " \o field \o "#length must be an array with 1-2 integer element, ex. [3, 10]", data, 0)
            ELSE IF value.t # "str" THEN Throw("TypeError: Expected a string", data, 0)
            ELSE LET min == ruleOptions.v[1].v
                     hasMax == Len(ruleOptions.v) >= 2
                     ok == StrLen[value.v] >= min
                           /\ (hasMax => StrLen[value.v] <= ruleOptions.v[2].v)
                 IN IF ok THEN Pass(data, 0)
                    ELSE Fail("length of " \o field \o " should >= " \o ToString(min)
                              \o (IF hasMax THEN " and <= " \o ToString(ruleOptions.v[2].v)
                                  ELSE ""), data, 0)
      [] ruleName = "number" ->
            IF ~(ruleOptions.t = "arr" /\ Len(ruleOptions.v) > 0)
            THEN Fail("config error: " \o field \o "#number must be an array with 1-2 integer element, ex. [3, 10]", data, 0)
            ELSE LET min == ruleOptions.v[1].v
                     hasMax == Len(ruleOptions.v) >= 2
                     ok == IsNumeric(value) /\ ToNumber(value) >= min
                           /\ (hasMax => ToNumber(value) < ruleOptions.v[2].v)
                 IN IF ok THEN Pass(data, 0)
                    ELSE Fail(field \o " should >= " \o ToString(min)
                              \o (IF hasMax THEN " and <= " \o ToString(ruleOptions.v[2].v)
                                  ELSE ""), data, 0)
      [] ruleName = "match" ->
            IF ~(ruleOptions.t = "str" /\ ruleOptions.v # "")
            THEN Fail("config error: " \o field \o "#match must be a string", data, 0)
            ELSE IF value.t = "str" /\ <<ruleOptions.v, value.v>> \in RegExpMatches
            THEN Pass(data, 0)
            ELSE Fail(field \o " had invalid format", data, 0)
      [] ruleName = "exists" ->
            IF ~(ruleOptions.t = "str" /\ ruleOptions.v # "")
            THEN Fail("config error: " \o field \o "#exists must be a string", data, 0)
            ELSE IF Len(ExistsPath[ruleOptions.v]) # 3
            THEN Fail("config error: invalid config of " \o field \o "#exists", data, 0)
            ELSE IF ctx.fault THEN Throw("accessor error", data, 1)
            ELSE IF ~AccessorGet(ctx.db, ExistsPath[ruleOptions.v][2],
                                 ExistsPath[ruleOptions.v][3], value)
            THEN Fail(field \o " not exists", data, 1)
            ELSE Pass(data, 1)
      [] ruleName = "unique" ->
            IF ~Truthy(ruleOptions) THEN Pass(data, 0)
            ELSE IF ctx.fault THEN Throw("accessor error", data, 1)
            ELSE IF AccessorGet(ctx.db, ctx.params.collection, field, value)
            THEN Fail(field \o " already exists", data, 1)
            ELSE Pass(data, 1)
      [] OTHER -> Pass(data, 0)    \* required, default: no value check

\* _validate(ruleName, ruleOptions, field, data, context): one rule of a
\* field against the flattened data.
_validate(ruleName, ruleOptions, field, flat, data, ctx) ==
    LET value == RawGet(flat, field) IN
    CASE ruleName \notin RULE_KEYS ->
            Fail("config error: unknown rule [" \o ruleName \o "]", data, 0)
      [] ruleName = "condition" ->
            LET global == ObjSet(ctx.injections, "$value", value)
                r == execScript(ValueToString(ruleOptions), global)
            IN IF ~r.ok THEN Throw("script error", data, 0)
               ELSE IF ~r.v THEN Fail("condition evaluted to false", data, 0)
               ELSE Pass(data, 0)
      [] ruleName = "in" ->
            IF ruleOptions.t # "arr"
            THEN Fail("config error: " \o field \o "#in must be an array", data, 0)
            ELSE IF ~Includes(ruleOptions.v, value)
            THEN Fail(field \o " should equal to one of [" \o Join(ruleOptions.v) \o "]", data, 0)
            ELSE Pass(data, 0)
      [] ruleName = "length" ->
            IF ~(ruleOptions.t = "arr" /\ Len(ruleOptions.v) > 0)
            THEN Fail("config error: " \o field \o "#length must be an array with 1-2 integer element, ex. [3, 10]", data, 0)
            ELSE IF value.t # "str" THEN Throw("TypeError: Expected a string", data, 0)
            ELSE LET min == ruleOptions.v[1].v
                     hasMax == Len(ruleOptions.v) >= 2
                     ok == StrLen[value.v] >= min
                           /\ (hasMax => StrLen[value.v] <= ruleOptions.v[2].v)
                 IN IF ok THEN Pass(data, 0)
                    ELSE Fail("length of " \o field \o " should >= " \o ToString(min)
                              \o (IF hasMax THEN " and <= " \o ToString(ruleOptions.v[2].v)
                                  ELSE ""), data, 0)
      [] ruleName = "number" ->
            IF ~(ruleOptions.t = "arr" /\ Len(ruleOptions.v) > 0)
            THEN Fail("config error: " \o field \o "#number must be an array with 1-2 integer element, ex. [3, 10]", data, 0)
            ELSE LET min == ruleOptions.v[1].v
                     hasMax == Len(ruleOptions.v) >= 2
                     ok == IsNumeric(value) /\ ToNumber(value) >= min
                           /\ (hasMax => ToNumber(value) <= ruleOptions.v[2].v)
                 IN IF ok THEN Pass(data, 0)
                    ELSE Fail(field \o " should >= " \o ToString(min)
                              \o (IF hasMax THEN " and <= " \o ToString(ruleOptions.v[2].v)
                                  ELSE ""), data, 0)
      [] ruleName = "match" ->
            IF ~(ruleOptions.t = "str" /\ ruleOptions.v # "")
            THEN Fail("config error: " \o field \o "#match must be a string", data, 0)
            ELSE IF value.t = "str" /\ <<ruleOptions.v, value.v>> \in RegExpMatches
            THEN Pass(data, 0)
            ELSE Fail(field \o " had invalid format", data, 0)
      [] ruleName = "exists" ->
            IF ~(ruleOptions.t = "str" /\ ruleOptions.v # "")
            THEN Fail("config error: " \o field \o "#exists must be a string", data, 0)
            ELSE IF Len(ExistsPath[ruleOptions.v]) # 3
            THEN Fail("config error: invalid config of " \o field \o "#exists", data, 0)
            ELSE IF ctx.fault THEN Throw("accessor error", data, 1)
            ELSE IF ~AccessorGet(ctx.db, ExistsPath[ruleOptions.v][2],
                                 ExistsPath[ruleOptions.v][3], value)
            THEN Fail(field \o " not exists", data, 1)
            ELSE Pass(data, 1)
      [] ruleName = "unique" ->
            IF ~Truthy(ruleOptions) THEN Pass(data, 0)
            ELSE IF ctx.fault THEN Throw("accessor error", data, 1)
            ELSE IF AccessorGet(ctx.db, ctx.params.collection, field, value)
            THEN Fail(field \o " already exists", data, 1)
            ELSE Pass(data, 1)
      [] OTHER -> Pass(data, 0)    \* required, default: no value check

\* The rules of a field, in key order, up to the first that does not pass.
RECURSIVE validateRules(_, _, _, _, _, _, _)
afterRule(r, names, rules_, field, flat, ctx, gets) ==
    IF r.kind # "null" THEN [r EXCEPT !.gets = gets + r.gets]
    ELSE validateRules(Tail(names), rules_, field, flat, r.data, ctx, gets + r.gets)

validateRules(names, rules_, field, flat, data, ctx, gets) ==
    IF names = <<>> THEN Pass(data, gets)
    ELSE afterRule(_validate(Head(names), ObjGet(rules_, Head(names)), field, flat, data, ctx),
                   names, rules_, field, flat, ctx, gets)

\* A mutant of validateField: the default is checked but not written to data.
validateFieldDefaultNotWritten(field, data, rules0, ctx) ==
    LET rules_ == IF rules0.t = "str" THEN Obj(<<KV("condition", rules0)>>) ELSE rules0 IN
    IF rules_.t # "obj"      \* rule configs are strings or mappings in this model
    THEN Fail("config error: [" \o field \o "]'s rules must be an object", data, 0)
    ELSE
    LET ro == rules_.v
        flatten == flattenData(data)
        isAdd == ctx.params.action = ActionType.ADD
        empty == RawGet(flatten, field).t \in {"undef", "null"}
        default == RawGet(ro, "default")
        hasDefault == default.t \notin {"undef", "null"}
        isRequired == RawGet(ro, "required") \in {Bool(TRUE), Num(1), Str("1")}
        \* flatten[field] = data[field] = rules['default']
        data1 == data
        flat1 == IF isAdd /\ empty /\ hasDefault
                 THEN ObjSet(flatten, field, default) ELSE flatten
        rule_names == SelectSeq(ObjKeys(ro), LAMBDA n : n \notin {"required", "default"})
    IN IF isAdd /\ empty /\ ~hasDefault
       THEN IF isRequired THEN Fail(field \o " is required", data, 0) ELSE Pass(data, 0)
       ELSE IF ctx.params.action = ActionType.UPDATE /\ RawGet(flat1, field).t = "undef"
       THEN Pass(data1, 0)
       ELSE validateRules(rule_names, ro, field, flat1, data1, ctx, 0)

\* A mutant of validateField: required and default apply to every action,
\* and an update does not skip the checks of an absent field.
validateFieldAnyAction(field, data, rules0, ctx) ==
    LET rules_ == IF rules0.t = "str" THEN Obj(<<KV("condition", rules0)>>) ELSE rules0 IN
    IF rules_.t # "obj"      \* rule configs are strings or mappings in this model
    THEN Fail("config error: [" \o field \o "]'s rules must be an object", data, 0)
    ELSE
    LET ro == rules_.v
        flatten == flattenData(data)
        isAdd == TRUE
        empty == RawGet(flatten, field).t \in {"undef", "null"}
        default == RawGet(ro, "default")
        hasDefault == default.t \notin {"undef", "null"}
        isRequired == RawGet(ro, "required") \in {Bool(TRUE), Num(1), Str("1")}
        \* flatten[field] = data[field] = rules['default']
        data1 == IF isAdd /\ empty /\ hasDefault
                 THEN Obj(ObjSet(data.v, field, default)) ELSE data
        flat1 == IF isAdd /\ empty /\ hasDefault
                 THEN ObjSet(flatten, field, default) ELSE flatten
        rule_names == SelectSeq(ObjKeys(ro), LAMBDA n : n \notin {"required", "default"})
    IN IF isAdd /\ empty /\ ~hasDefault
       THEN IF isRequired THEN Fail(field \o " is required", data, 0) ELSE Pass(data, 0)
       ELSE validateRules(rule_names, ro, field, flat1, data1, ctx, 0)

\* validateField(field, data, rules, context); data is the mapping the
\* field is read from (request.data, or request.query for the query
\* validator) and the result carries it as the call left it.
validateField(field, data, rules0, ctx) ==
    LET rules_ == IF rules0.t = "str" THEN Obj(<<KV("condition", rules0)>>) ELSE rules0 IN
    IF rules_.t # "obj"      \* rule configs are strings or mappings in this model
    THEN Fail("config error: [" \o field \o "]'s rules must be an object", data, 0)
    ELSE
    LET ro == rules_.v
        flatten == flattenData(data)
        isAdd == ctx.params.action = ActionType.ADD
        empty == RawGet(flatten, field).t \in {"undef", "null"}
        default == RawGet(ro, "default")
        hasDefault == default.t \notin {"undef", "null"}
        isRequired == RawGet(ro, "required") \in {Bool(TRUE), Num(1), Str("1")}
        \* flatten[field] = data[field] = rules['default']
        data1 == IF isAdd /\ empty /\ hasDefault
                 THEN Obj(ObjSet(data.v, field, default)) ELSE data
        flat1 == IF isAdd /\ empty /\ hasDefault
                 THEN ObjSet(flatten, field, default) ELSE flatten
        rule_names == SelectSeq(ObjKeys(ro), LAMBDA n : n \notin {"required", "default"})
    IN IF isAdd /\ empty /\ ~hasDefault
       THEN IF isRequired THEN Fail(field \o " is required", data, 0) ELSE Pass(data, 0)
       ELSE IF ctx.params.action = ActionType.UPDATE /\ RawGet(flat1, field).t = "undef"
       THEN Pass(data1, 0)
       ELSE validateRules(rule_names, ro, field, flat1, data1, ctx, 0)

----------------------------------------------------------------------------
\* The validator handlers.  A handler run yields
\* [kind, msg, gets, params]: params is the request as the run left it.

Out(kind, msg, gets, params) ==
    [kind |-> kind, msg |-> msg, gets |-> gets, params |-> params]

\* ConditionHandler(config, context)
ConditionHandler(config, ctx) ==
    IF config.t = "undef" THEN Out("null", "", 0, ctx.params)
    ELSE IF config.t = "bool"
    THEN IF config.v THEN Out("null", "", 0, ctx.params)
         ELSE Out("msg", "condition evaluted to false", 0, ctx.params)
    ELSE LET r == execScript(ValueToString(config), ctx.injections) IN
         IF ~r.ok THEN Out("msg", "expression error: " \o ValueToString(config), 0, ctx.params)
         ELSE IF ~r.v THEN Out("msg", "condition evaluted to false", 0, ctx.params)
         ELSE Out("null", "", 0, ctx.params)

\* The fields of a data / query config, in key order, up to the first whose
\* rules do not pass; data is threaded through the validateField calls.
RECURSIVE validateFields(_, _, _, _, _)
afterField(r, fields, config, ctx, gets) ==
    IF r.kind # "null" THEN [r EXCEPT !.gets = gets + r.gets]
    ELSE validateFields(Tail(fields), config, r.data, ctx, gets + r.gets)

validateFields(fields, config, data, ctx, gets) ==
    IF fields = <<>> THEN Pass(data, gets)
    ELSE afterField(validateField(Head(fields), data, ObjGet(config, Head(fields)), ctx),
                    fields, config, ctx, gets)

\* The handler's result for the result r of its field checks, the checked
\* mapping being params[which].
OutOfFields(r, p, which) ==
    Out(r.kind, r.msg, r.gets, [p EXCEPT ![which] = r.data])

HasOperator(data) == \E i \in 1..Len(data.v) : data.v[i].k \in UPDATE_COMMANDS

\* The non-match for merge = true without an operator (the source writes
\* merge between backquotes).
MergeMessage == "data must contain operator while merge with true"

\* DataHandler(config, context)
DataHandler(config, ctx) ==
    LET p == ctx.params
        data == p.data
    IN
    IF config.t = "undef" THEN Out("null", "", 0, p)
    ELSE IF data.t = "undef" THEN Out("msg", "data is undefined", 0, p)
    ELSE IF data.t # "obj" THEN Out("msg", "data must be an object", 0, p)
    ELSE IF data.v = <<>> THEN Out("msg", "data is empty", 0, p)
    ELSE IF p.action = ActionType.UPDATE /\ p.merge = Bool(TRUE) /\ ~HasOperator(data)
    THEN Out("msg", MergeMessage, 0, p)
    ELSE IF p.action = ActionType.UPDATE /\ p.merge # Bool(TRUE) /\ HasOperator(data)
    THEN Out("msg", "data must not contain any operator", 0, p)
    ELSE IF config.t # "obj"
    THEN Out("msg", "config error: config must be an object", 0, p)
    ELSE OutOfFields(validateFields(ObjKeys(config.v), config.v, data, ctx, 0), p, "data")

\* isAllowedFields(input_fields, allow_fields): the message for the first
\* input field that is not allowed, "" for none.
isAllowedFields(input_fields, allow_fields) ==
    LET bad == {i \in 1..Len(input_fields) :
                   \A j \in 1..Len(allow_fields) : allow_fields[j] # input_fields[i]}
        first == CHOOSE i \in bad : \A j \in bad : i <= j
    IN IF bad = {} THEN ""
       ELSE ("the field '" \o input_fields[first]) \o "' is NOT allowed]"

\* QueryHandler(config, context)
QueryHandler(config, ctx) ==
    LET p == ctx.params
        query == p.query
    IN
    IF ~Truthy(query) THEN Out("msg", "query is undefined", 0, p)
    ELSE IF query.t # "obj" THEN Out("msg", "query must be an object", 0, p)
    ELSE
    LET fields == ObjKeys(query.v) IN
    IF config.t = "arr"
    THEN LET error == isAllowedFields(fields, [i \in 1..Len(config.v) |-> ValueToString(config.v[i])])
         IN IF error = "" THEN Out("null", "", 0, p) ELSE Out("msg", error, 0, p)
    ELSE IF config.t = "obj"
    THEN LET allow_fields == ObjKeys(config.v)
             error == isAllowedFields(fields, allow_fields)
         IN IF error # "" THEN Out("msg", error, 0, p)
            ELSE OutOfFields(validateFields(allow_fields, config.v, query, ctx, 0), p, "query")
    ELSE Out("msg", "config error: config must be an array or object", 0, p)

\* MultiHandler(config, context)
MultiHandler(config, ctx) ==
    LET p == ctx.params
        global == ObjSet(ObjSet(ObjSet(ctx.injections, "query", p.query),
                                "data", p.data), "multi", p.multi)
        r == execScript(IF config.t = "str" THEN config.v ELSE "true", global)
        allow0 == p.action = ActionType.READ
        allow1 == IF config.t = "bool" THEN config.v ELSE allow0
        allow_multi == IF config.t = "str" THEN r.v ELSE allow1
    IN
    IF config.t = "str" /\ ~r.ok THEN Out("throw", "script error", 0, p)
    ELSE IF p.action = ActionType.ADD /\ p.data.t = "arr" /\ ~Truthy(p.multi)
    THEN Out("msg", "multi insert operation denied", 0, p)
    ELSE IF allow_multi THEN Out("null", "", 0, p)
    ELSE IF ~allow_multi /\ Truthy(p.multi) THEN Out("msg", "multi operation denied", 0, p)
    ELSE Out("null", "", 0, p)

\* The handlers a caller registers in this model: each is a no-op unless
\* its config is false.
UserHandler(id, config, ctx) ==
    IF config = Bool(FALSE) THEN Out("msg", id \o " denied", 0, ctx.params)
    ELSE Out("null", "", 0, ctx.params)

\* Processor.run(context): handler(config, context).
ProcessorRun(proc, ctx) ==
    CASE proc.handler = "ConditionHandler" -> ConditionHandler(proc.config, ctx)
      [] proc.handler = "DataHandler" -> DataHandler(proc.config, ctx)
      [] proc.handler = "QueryHandler" -> QueryHandler(proc.config, ctx)
      [] proc.handler = "MultiHandler" -> MultiHandler(proc.config, ctx)
      [] OTHER -> UserHandler(proc.handler, proc.config, ctx)

----------------------------------------------------------------------------
\* The validator registry.

\* BUILT_IN_VALIDATORS, in export order.
BUILT_IN_VALIDATORS ==
    <<KV("condition", "ConditionHandler"), KV("data", "DataHandler"),
      KV("query", "QueryHandler"), KV("multi", "MultiHandler")>>

\* handler instanceof Function
IsFunction(handler) == handler # "notfn"

\* A mutant of registerInto: a duplicate name overwrites the handler.
registerOverwrite(reg, name, handler) ==
    IF name = "" THEN [ok |-> FALSE, err |-> "register error: name must not be empty", v |-> reg]
    ELSE IF ~IsFunction(handler)
    THEN [ok |-> FALSE, err |-> name \o " register error: 'handler' must be a callable function", v |-> reg]
    ELSE [ok |-> TRUE, err |-> "", v |-> ObjSet(reg, name, handler)]

\* register(name, handler) on registry reg: [ok, err, v |-> the registry after].
registerInto(reg, name, handler) ==
    IF name = "" THEN [ok |-> FALSE, err |-> "register error: name must not be empty", v |-> reg]
    ELSE IF ~IsFunction(handler)
    THEN [ok |-> FALSE, err |-> name \o " register error: 'handler' must be a callable function", v |-> reg]
    ELSE IF \E i \in 1..Len(reg) : reg[i].k = name
    THEN [ok |-> FALSE, err |-> "validator's name: '" \o name \o "' duplicated", v |-> reg]
    ELSE [ok |-> TRUE, err |-> "", v |-> ObjSet(reg, name, handler)]

\* loadBuiltins(): the registry after construction.
RECURSIVE loadBuiltinsFrom(_, _)
loadBuiltinsFrom(kvs, reg) ==
    IF kvs = <<>> THEN reg
    ELSE loadBuiltinsFrom(Tail(kvs), registerInto(reg, Head(kvs).k, Head(kvs).v).v)

loadBuiltins == loadBuiltinsFrom(BUILT_IN_VALIDATORS, <<>>)

----------------------------------------------------------------------------
\* The rule compiler.

Processor(name, handler, config) == [name |-> name, handler |-> handler, config |-> config]

\* The first key of raw_rule that names no validator (this.validators[vname]
\* is falsy), "" when there is none.
FirstUnknown(reg, raw_rule) ==
    LET bad == {i \in 1..Len(raw_rule) : ~LookupTruthy(reg, raw_rule[i].k)}
    IN IF bad = {} THEN "" ELSE raw_rule[CHOOSE i \in bad : \A j \in bad : i <= j].k

\* prule: a Processor for every validator of the registry, in key order.
RECURSIVE instantiateFrom(_, _, _)
instantiateFrom(regkvs, raw_rule, prule) ==
    IF regkvs = <<>> THEN prule
    ELSE LET vname == Head(regkvs).k IN
         instantiateFrom(Tail(regkvs), raw_rule,
             ObjSet(prule, vname, Processor(vname, Head(regkvs).v, RawGet(raw_rule, vname))))

\* A mutant of instantiateVariant: only the configured validators get a Processor.
instantiateConfiguredOnly(reg, raw_rule) ==
    instantiateFrom(SelectSeq(reg, LAMBDA e : ObjHas(raw_rule, e.k)), raw_rule, <<>>)

instantiateVariant(reg, raw_rule) == instantiateFrom(reg, raw_rule, <<>>)

\* permissionRules normalised to an array of raw rules.
NormalizeRules(permissionRules) ==
    IF permissionRules.t = "bool"
    THEN <<Obj(<<KV("condition", Str(IF permissionRules.v THEN "true" ELSE "false"))>>)>>
    ELSE IF permissionRules.t = "str"
    THEN <<Obj(<<KV("condition", permissionRules)>>)>>
    ELSE IF permissionRules.t # "arr" THEN <<permissionRules>>
    ELSE permissionRules.v

\* instantiateValidators(permissionRules) with registry reg:
\* [ok, err, v |-> PermissionRule[]].  The raw rules are mappings.
instantiateValidators(reg, permissionRules) ==
    IF permissionRules.t \in {"undef", "null"}
    THEN [ok |-> FALSE, err |-> "permissionRules is undefined", v |-> <<>>]
    ELSE
    LET raw == NormalizeRules(permissionRules)
        bad == {i \in 1..Len(raw) : FirstUnknown(reg, raw[i].v) # ""}
    IN IF bad # {}
       THEN [ok |-> FALSE,
             err |-> "unknown validator '"
                     \o FirstUnknown(reg, raw[CHOOSE i \in bad : \A j \in bad : i <= j].v)
                     \o "' in your rules",
             v |-> <<>>]
       ELSE [ok |-> TRUE, err |-> "",
             v |-> [i \in 1..Len(raw) |-> instantiateVariant(reg, raw[i].v)]]

\* The loop of set over the keys of the collection's rules.
RECURSIVE compilePerms(_, _, _, _)
afterPerm(r, reg, perm_types, rules_, collectionRule) ==
    IF ~r.ok THEN [ok |-> FALSE, err |-> r.err, v |-> <<>>]
    ELSE compilePerms(reg, Tail(perm_types), rules_,
                      ObjSet(collectionRule, Head(perm_types), r.v))

compilePerms(reg, perm_types, rules_, collectionRule) ==
    IF perm_types = <<>> THEN [ok |-> TRUE, err |-> "", v |-> collectionRule]
    ELSE afterPerm(instantiateValidators(reg, ObjGet(rules_, Head(perm_types))),
                   reg, perm_types, rules_, collectionRule)

\* collectionRule.$schema = s, after the loop ended as c.
withSchema(c, s) ==
    IF ~c.ok THEN c
    ELSE IF ~s.ok THEN [ok |-> FALSE, err |-> s.err, v |-> <<>>]
    ELSE [ok |-> TRUE, err |-> "", v |-> ObjSet(c.v, "$schema", s.v)]

\* The CollectionRule that set(collection, rules) builds: [ok, err, v].
compileCollection(reg, rules_) ==
    withSchema(compilePerms(reg, ObjKeys(rules_), rules_, <<>>),
               instantiateValidators(reg, Obj(<<KV("data", RawGet(rules_, "$schema"))>>)))

\* Ruler.collections
collections(table) == ObjKeys(table)

Contains(seq, x) == \E i \in 1..Len(seq) : seq[i] = x

\* set(collection, rules) on table: [ok, err, v |-> the table after].
\* A mutant of store: the table is replaced by the one collection.
storeReplacingTable(c, table, collection) ==
    IF ~c.ok THEN [ok |-> FALSE, err |-> c.err, v |-> table]
    ELSE [ok |-> TRUE, err |-> "", v |-> ObjSet(<<>>, collection, c.v)]

store(c, table, collection) ==
    IF ~c.ok THEN [ok |-> FALSE, err |-> c.err, v |-> table]
    ELSE [ok |-> TRUE, err |-> "", v |-> ObjSet(table, collection, c.v)]

setInto(reg, table, collection, rules_) ==
    store(compileCollection(reg, rules_), table, collection)

\* A mutant of addInto: the pre-check that the collection is absent is missing.
addWithoutCheck(reg, table, collection, rules_) == setInto(reg, table, collection, rules_)

\* add(collection, rules) on table: [ok, err, v |-> the table after].
addInto(reg, table, collection, rules_) ==
    IF Contains(collections(table), collection)
    THEN [ok |-> FALSE,
          err |-> "add collection rules failed: " \o collection \o " already exists",
          v |-> table]
    ELSE setInto(reg, table, collection, rules_)

\* load(rules): add for every collection of rules, in key order, until one
\* throws: [ok, err, v |-> the table as the call left it].
RECURSIVE loadInto(_, _, _)
afterAdd(r, reg, kvs) == IF ~r.ok THEN r ELSE loadInto(reg, r.v, Tail(kvs))

loadInto(reg, table, kvs) ==
    IF kvs = <<>> THEN [ok |-> TRUE, err |-> "", v |-> table]
    ELSE afterAdd(addInto(reg, table, Head(kvs).k, Head(kvs).v), reg, kvs)

----------------------------------------------------------------------------
\* The rule matcher: the synchronous prefix of validate.

\* getAction(actionType): the action of a known token, "" (null) otherwise.
getAction(actionType) == IF actionType \in ActionTokens THEN actionType ELSE ""

\* getPermissionName(action): [ok, v]; not ok when the switch falls to its
\* default and throws.
getPermissionName(action) ==
    CASE action = ActionType.ADD -> [ok |-> TRUE, v |-> PermissionType.ADD]
      [] action = ActionType.READ -> [ok |-> TRUE, v |-> PermissionType.READ]
      [] action = ActionType.UPDATE -> [ok |-> TRUE, v |-> PermissionType.UPDATE]
      [] action = ActionType.REMOVE -> [ok |-> TRUE, v |-> PermissionType.REMOVE]
      [] action = ActionType.COUNT -> [ok |-> TRUE, v |-> PermissionType.COUNT]
      [] OTHER -> [ok |-> FALSE, v |-> ""]

\* A mutant of ValidateError: the entry does not name the validator.
ValidateErrorUntyped(type, error) == [type |-> Num(0), error |-> error]

\* { type, error }: an entry of the errors list.
ValidateError(type, error) == [type |-> type, error |-> error]

NoResult == [kind |-> "none", keys |-> {}, matched |-> <<>>, errors |-> <<>>, err |-> ""]

\* return { errors }
ReturnErrors(errors) ==
    [kind |-> "returned", keys |-> {"errors"}, matched |-> <<>>, errors |-> errors, err |-> ""]

\* A mutant of ReturnMatched: the accumulated errors are returned with the match.
ReturnMatchedWithErrors(matched, errors) ==
    [kind |-> "returned", keys |-> {"matched", "errors"}, matched |-> matched,
     errors |-> errors, err |-> ""]

\* return { matched }; errors is the local list the return leaves behind.
ReturnMatched(matched, errors) ==
    [kind |-> "returned", keys |-> {"matched"}, matched |-> matched, errors |-> <<>>, err |-> ""]

Thrown(err) == [kind |-> "threw", keys |-> {}, matched |-> <<>>, errors |-> <<>>, err |-> err]

NoParams ==
    [collection |-> "", action |-> "", query |-> Undef, data |-> Undef,
     multi |-> Undef, merge |-> Undef]

IdleCall ==
    [pc |-> "idle", params |-> NoParams, injections |-> <<>>, permRules |-> <<>>,
     vi |-> 0, pi |-> 0, errors |-> <<>>, ran |-> <<>>, gets |-> <<>>,
     result |-> NoResult]

\* The call after the checks that precede the loop over the variants
\* (validate up to "let matched = null").
StartCall(table, params, injections) ==
    LET base == [IdleCall EXCEPT !.params = params, !.injections = injections]
        done(res) == [base EXCEPT !.pc = res.kind, !.result = res, !.errors = res.errors]
        action == getAction(params.action)
        permName == getPermissionName(action)
    IN
    IF ~Contains(collections(table), params.collection)
    THEN done(ReturnErrors(<<ValidateError(Num(0),
              "collection \"" \o params.collection \o "\" not found")>>))
    ELSE IF action = ""
    THEN done(ReturnErrors(<<ValidateError(Num(0),
              "action \"" \o params.action \o "\" invalid")>>))
    ELSE IF ~permName.ok THEN done(Thrown("getPermissionName() unknow action"))
    ELSE IF ~ObjHas(ObjGet(table, params.collection), permName.v)
    THEN done(ReturnErrors(<<ValidateError(Num(0),
              params.collection \o " " \o params.action \o " don't has any rules")>>))
    ELSE LET permRules == ObjGet(ObjGet(table, params.collection), permName.v)
         IN IF permRules = <<>> THEN done(ReturnErrors(<<>>))
            ELSE [base EXCEPT !.pc = "running", !.permRules = permRules, !.vi = 1, !.pi = 1]

----------------------------------------------------------------------------
\* The rule matcher: one validator run of the loop, and what follows it up
\* to the next run or the return.

\* The documents the accessor answers from.
Db == {<<"users", "id", Str("t1")>>, <<"c1", "title", Str("t2")>>}

\* A mutant of NextVariant: after a match the loop goes on to the next variant.
NoBreakOnMatch(c, matchedNow) ==
    IF c.vi = Len(c.permRules) THEN 0 ELSE c.vi + 1

\* The variant the loop turns to after variant c.vi ended: none (0) after a
\* match or after the last variant.
NextVariant(c, matchedNow) ==
    IF matchedNow \/ c.vi = Len(c.permRules) THEN 0 ELSE c.vi + 1

\* The validator the loop runs next in variant c.vi: none (0) after a
\* non-null result or after the last validator.
NextProcessor(c, failed) ==
    IF failed \/ c.pi = Len(c.permRules[c.vi]) THEN 0 ELSE c.pi + 1

\* A mutant of AfterRun: a non-null result is not taken as a failure.
AfterRunIgnoringResult(c, out) ==
    LET validtrs == c.permRules[c.vi]
        c1 == [c EXCEPT !.params = out.params,
                        !.ran = Append(c.ran, <<c.vi, validtrs[c.pi].k, out.kind>>),
                        !.gets = c.gets \o [i \in 1..out.gets |-> c.vi]]
        np == NextProcessor(c, FALSE)
    IN
    IF out.kind = "throw"
    THEN [c1 EXCEPT !.pc = "threw", !.result = Thrown(out.msg)]
    ELSE IF np # 0 THEN [c1 EXCEPT !.pi = np]
    ELSE [c1 EXCEPT !.pc = "returned", !.result = ReturnMatched(validtrs, c1.errors)]

\* A mutant of AfterRun: an error a validator raises is caught and recorded
\* as a non-match.
AfterRunCatching(c, out) ==
    LET validtrs == c.permRules[c.vi]
        vname == validtrs[c.pi].k
        failed == out.kind \in {"msg", "throw"} /\ out.msg # ""
        c1 == [c EXCEPT !.params = out.params,
                        !.ran = Append(c.ran, <<c.vi, vname, out.kind>>),
                        !.gets = c.gets \o [i \in 1..out.gets |-> c.vi],
                        !.errors = IF failed
                                   THEN Append(c.errors, ValidateError(Str(vname), out.msg))
                                   ELSE c.errors]
        np == NextProcessor(c, failed)
        nv == NextVariant(c, np = 0 /\ ~failed)
    IN
    IF FALSE
    THEN [c1 EXCEPT !.pc = "threw", !.result = Thrown(out.msg)]
    ELSE IF np # 0 THEN [c1 EXCEPT !.pi = np]
    ELSE IF nv # 0 THEN [c1 EXCEPT !.vi = nv, !.pi = 1]
    ELSE IF ~failed
    THEN [c1 EXCEPT !.pc = "returned", !.result = ReturnMatched(validtrs, c1.errors)]
    ELSE [c1 EXCEPT !.pc = "returned", !.result = ReturnErrors(c1.errors)]

\* The call after the validator c.pi of variant c.vi ran with outcome out.
AfterRun(c, out) ==
    LET validtrs == c.permRules[c.vi]
        vname == validtrs[c.pi].k
        failed == out.kind = "msg" /\ out.msg # ""
        c1 == [c EXCEPT !.params = out.params,
                        !.ran = Append(c.ran, <<c.vi, vname, out.kind>>),
                        !.gets = c.gets \o [i \in 1..out.gets |-> c.vi],
                        !.errors = IF failed
                                   THEN Append(c.errors, ValidateError(Str(vname), out.msg))
                                   ELSE c.errors]
        np == NextProcessor(c, failed)
        nv == NextVariant(c, np = 0 /\ ~failed)
    IN
    IF out.kind = "throw"
    THEN [c1 EXCEPT !.pc = "threw", !.result = Thrown(out.msg)]
    ELSE IF np # 0 THEN [c1 EXCEPT !.pi = np]
    ELSE IF nv # 0 THEN [c1 EXCEPT !.vi = nv, !.pi = 1]
    ELSE IF ~failed
    THEN [c1 EXCEPT !.pc = "returned", !.result = ReturnMatched(validtrs, c1.errors)]
    ELSE [c1 EXCEPT !.pc = "returned", !.result = ReturnErrors(c1.errors)]

StepCall(c, fault) ==
    AfterRun(c, ProcessorRun(c.permRules[c.vi][c.pi].v,
                             [params |-> c.params, injections |-> c.injections,
                              db |-> Db, fault |-> fault]))

----------------------------------------------------------------------------
\* The inputs the environment draws.

\* register(name, handler) calls.
RegisterInputs ==
    {<<"", "H1">>, <<"custom", "H1">>, <<"custom", "H2">>, <<"custom", "notfn">>,
     <<"7", "H1">>, <<"condition", "H1">>}

Collections == {"c1", "c2"}

\* The rules of one collection, by name.
RuleSources ==
    [bool |-> <<KV("read", Bool(TRUE))>>,
     variants |->
        <<KV("read", Arr(<<
              Obj(<<KV("condition", Str("$admin")), KV("query", Arr(<<Str("title"), Str("id")>>))>>),
              Obj(<<KV("query", Arr(<<Str("title")>>))>>),
              Obj(<<KV("query", Obj(<<KV("id", Obj(<<KV("exists", Str("/users/id"))>>))>>))>>) >>)),
          KV("add", Arr(<<
              Obj(<<KV("data", Obj(<<KV("title", Obj(<<KV("required", Bool(TRUE)),
                                                         KV("unique", Bool(TRUE))>>))>>)),
                    KV("query", Arr(<<>>))>>),
              Obj(<<KV("data", Obj(<<KV("title", Obj(<<KV("exists", Str("/users/id"))>>))>>)),
                    KV("query", Arr(<<>>))>>) >>))>>,
     bogus |-> <<KV("read", Obj(<<KV("bogus", Bool(TRUE))>>))>>,
     proto |-> <<KV("read", Obj(<<KV("toString", Bool(TRUE)), KV("query", Arr(<<Str("title")>>))>>))>>,
     schema |->
        <<KV("add", Obj(<<KV("condition", Bool(TRUE))>>)),
          KV("$schema", Obj(<<KV("title", Obj(<<KV("required", Bool(TRUE))>>))>>))>>,
     emptySchema |->
        <<KV("$schema", Obj(<<>>)), KV("read", Obj(<<KV("query", Arr(<<Str("title")>>))>>))>>,
     ordered |->
        <<KV("update", Arr(<<
              Obj(<<KV("condition", Bool(FALSE)), KV("7", Bool(FALSE)), KV("query", Arr(<<>>))>>),
              Obj(<<KV("multi", Bool(FALSE)), KV("query", Arr(<<>>)),
                    KV("data", Obj(<<KV("title", Obj(<<KV("in", Arr(<<Str("t2")>>))>>))>>))>>),
              Obj(<<KV("query", Arr(<<>>)), KV("multi", Bool(FALSE))>>) >>))>>,
     custom |-> <<KV("read", Obj(<<KV("custom", Bool(FALSE)), KV("query", Arr(<<Str("title")>>))>>))>>,
     empty |-> <<KV("read", Arr(<<>>))>>]

\* add(collection, rules) calls: <<collection, name of the rules>>.
AddInputs == {<<c, src>> : c \in Collections, src \in {"bool", "variants", "bogus"}}

\* set(collection, rules) calls: <<collection, name of the rules>>.
SetInputs == {<<"c1", src>> : src \in DOMAIN RuleSources} \cup {<<"c2", "bool">>}

\* load(rules) calls: rules objects, collection -> name of its rules.
LoadInputs ==
    [both |-> <<KV("c1", "bool"), KV("c2", "variants")>>,
     secondFails |-> <<KV("c1", "variants"), KV("c2", "bogus")>>,
     firstFails |-> <<KV("c2", "bogus"), KV("c1", "bool")>>]

LoadRules(id) == [i \in 1..Len(LoadInputs[id]) |->
                    KV(LoadInputs[id][i].k, RuleSources[LoadInputs[id][i].v])]

Params(collection, action, query, data, multi, merge) ==
    [collection |-> collection, action |-> action, query |-> query, data |-> data,
     multi |-> multi, merge |-> merge]

TitleT1 == Obj(<<KV("title", Str("t1"))>>)
TitleT2 == Obj(<<KV("title", Str("t2"))>>)

\* validate(params, injections) calls.
ValidateInputs ==
    {<<Params("c1", ActionType.READ, q, Undef, Undef, Undef), <<>> >> :
        q \in {TitleT1, Obj(<<KV("id", Str("t1"))>>), Obj(<<KV("id", Str("t9"))>>), Undef}}
    \cup
    {<<Params("c1", ActionType.READ, TitleT1, Undef, Undef, Undef), <<KV("$admin", Bool(TRUE))>> >>}
    \cup
    {<<Params("c1", ActionType.ADD, Obj(<<>>), d, Undef, Undef), <<>> >> :
        d \in {TitleT1, TitleT2, Obj(<<KV("name", Str("t1"))>>)}}
    \cup
    {<<Params("c1", ActionType.UPDATE, Obj(<<>>), d, m, Undef), <<>> >> :
        d \in {TitleT1, TitleT2}, m \in {Bool(TRUE), Undef}}
    \cup
    {<<Params("c1", a, Undef, Undef, Undef, Undef), <<>> >> :
        a \in {ActionType.WATCH, ActionType.REMOVE, ActionType.COUNT, "database.dropDocument"}}
    \cup
    {<<Params("c3", a, Undef, Undef, Undef, Undef), <<>> >> :
        a \in {ActionType.WATCH, ActionType.REMOVE}}

----------------------------------------------------------------------------
\* The operations.

NoOp == [name |-> "new", target |-> "", arg |-> "", ok |-> TRUE, err |-> ""]

Op(name, target, arg, r) ==
    [name |-> name, target |-> target, arg |-> arg, ok |-> r.ok, err |-> r.err]

\* No request has been validated twice.
NoPrev == [request |-> NoParams, result |-> NoResult, n |-> 0, equal |-> FALSE]

\* The execute calls that may be in flight together.
Requests == {1, 2}

\* An execute call not made yet.
NoRequest == [pc |-> "idle", call |-> IdleCall]

\* new Ruler(accessor); no request made, nothing added to the collection.
Init ==
    /\ validators = loadBuiltins
    /\ rules = <<>>
    /\ op = NoOp
    /\ call = IdleCall
    /\ regOrder = ObjKeys(BUILT_IN_VALIDATORS)
    /\ nops = 0
    /\ ncalls = 0
    /\ prev = NoPrev
    /\ documents = <<>>
    /\ requests = [i \in Requests |-> NoRequest]

\* The registry after a register call that ended as r.
Registered(name, handler, r) ==
    /\ nops < MaxOps
    /\ validators' = r.v
    /\ op' = Op("register", name, handler, r)
    /\ regOrder' = IF r.ok THEN Append(regOrder, name) ELSE regOrder
    /\ nops' = nops + 1
    /\ UNCHANGED <<rules, call, ncalls, prev, documents, requests>>

\* The table after a load / add / set call that ended as r.
Compiled(name, collection, arg, r) ==
    /\ nops < MaxOps
    /\ rules' = r.v
    /\ op' = Op(name, collection, arg, r)
    /\ nops' = nops + 1
    /\ UNCHANGED <<validators, call, regOrder, ncalls, prev, documents, requests>>

\* register(name, handler)
register ==
    \E in \in RegisterInputs :
        Registered(in[1], in[2], registerInto(validators, in[1], in[2]))

\* load(rules)
load ==
    \E id \in DOMAIN LoadInputs :
        Compiled("load", "", id, loadInto(validators, rules, LoadRules(id)))

\* add(collection, rules)
add ==
    \E in \in AddInputs :
        Compiled("add", in[1], in[2],
                 addInto(validators, rules, in[1], RuleSources[in[2]]))

\* set(collection, rules)
set ==
    \E in \in SetInputs :
        Compiled("set", in[1], in[2],
                 setInto(validators, rules, in[1], RuleSources[in[2]]))

\* validate(params, injections): the call, up to its first validator run.
validate ==
    \E in \in ValidateInputs :
        /\ call.pc # "running"
        /\ ncalls < MaxCalls
        /\ call' = StartCall(rules, in[1], in[2])
        /\ ncalls' = ncalls + 1
        /\ UNCHANGED <<validators, rules, op, regOrder, nops, prev, documents, requests>>

\* The call with its variants read again from the table.
CallOnTable(c, table) ==
    LET s0 == StartCall(table, c.params, c.injections)
    IN IF s0.pc = "running" /\ c.vi <= Len(s0.permRules)
          /\ c.pi <= Len(s0.permRules[c.vi])
       THEN [c EXCEPT !.permRules = s0.permRules]
       ELSE c

\* A mutant of validateStep: the variants are read from the table at every
\* step instead of once before the loop.
validateStepRereading ==
    \E fault \in BOOLEAN :
        /\ call.pc = "running"
        /\ call' = StepCall(CallOnTable(call, rules), fault)
        /\ UNCHANGED <<validators, rules, op, regOrder, nops, ncalls, prev, documents, requests>>

\* validate, resumed: the next validator run, the accessor raising or not.
validateStep ==
    \E fault \in BOOLEAN :
        /\ call.pc = "running"
        /\ call' = StepCall(call, fault)
        /\ UNCHANGED <<validators, rules, op, regOrder, nops, ncalls, prev, documents, requests>>

Next == register \/ load \/ add \/ set \/ validate \/ validateStep

Spec == Init /\ [][Next]_vars

----------------------------------------------------------------------------
\* The engine as a gateway uses it: the rules of a collection are set
\* before the requests arrive; a caller may validate a request once more,
\* with the request object the first call left or with a fresh copy of it.

\* A query config that allows no field: matches the empty query.
NoFields == Arr(<<>>)

Rule(data) == Obj(<<KV("data", data), KV("query", NoFields)>>)

\* The rules of one collection, by name.
DataSources ==
    [actions |->
        <<KV("read", Obj(<<KV("query", NoFields)>>)), KV("add", Obj(<<KV("query", NoFields)>>)),
          KV("update", Obj(<<KV("query", NoFields)>>)), KV("remove", Obj(<<KV("query", NoFields)>>)),
          KV("count", Obj(<<KV("query", NoFields)>>)), KV("watch", Obj(<<KV("query", NoFields)>>))>>,
     fields |->
        <<KV("add", Arr(<<
              Rule(Obj(<<KV("title", Obj(<<KV("required", Bool(TRUE))>>))>>)),
              Rule(Obj(<<KV("title", Obj(<<KV("default", Str("t1")),
                                           KV("in", Arr(<<Str("t1"), Str("t2")>>)),
                                           KV("unique", Bool(TRUE))>>)),
                         KV("name", Obj(<<KV("required", Bool(FALSE)),
                                          KV("length", Arr(<<Num(1), Num(5)>>))>>))>>)) >>)),
          KV("update", Arr(<<
              Rule(Obj(<<KV("title", Obj(<<KV("required", Bool(TRUE)), KV("default", Str("t1")),
                                           KV("in", Arr(<<Str("t2")>>))>>))>>)) >>))>>,
     checks |->
        <<KV("add", Arr(<<
              Rule(Obj(<<KV("title", Obj(<<KV("default", Str("Title")),
                                           KV("length", Arr(<<Num(1), Num(2)>>))>>))>>)),
              Rule(Obj(<<KV("name", Obj(<<KV("bogus", Bool(TRUE))>>))>>)),
              Rule(Obj(<<KV("name", Str("$userid == $value"))>>)),
              Rule(Obj(<<KV("name", Obj(<<KV("length", Arr(<<Num(1), Num(5)>>))>>))>>)) >>))>>,
     multiExpr |->
        <<KV("update", Arr(<<
              Obj(<<KV("multi", Str("multi ==")), KV("query", NoFields)>>),
              Obj(<<KV("query", NoFields)>>) >>))>>,
     multis |->
        <<KV("add", Arr(<<
              Obj(<<KV("multi", Bool(FALSE)), KV("query", NoFields)>>),
              Obj(<<KV("multi", Str("false")), KV("query", NoFields)>>),
              Obj(<<KV("multi", Str("multi ==")), KV("query", NoFields)>>) >>)),
          KV("update", Arr(<<
              Obj(<<KV("multi", Bool(FALSE)), KV("query", NoFields)>>),
              Obj(<<KV("multi", Str("multi")), KV("query", NoFields)>>) >>)),
          KV("remove", Obj(<<KV("query", NoFields)>>)),
          KV("read", Obj(<<KV("query", NoFields)>>))>>,
     numbers |->
        <<KV("add", Arr(<<
              Rule(Obj(<<KV("total", Obj(<<KV("number", Arr(<<Num(1), Num(3)>>))>>))>>)),
              Rule(Obj(<<KV("total", Obj(<<KV("number", Arr(<<Num(2)>>))>>))>>)) >>))>>,
     whitelist |->
        <<KV("read", Arr(<<
              Obj(<<KV("query", Arr(<<Str("title")>>))>>),
              Obj(<<KV("query", Obj(<<KV("title", Obj(<<KV("in", Arr(<<Str("t1")>>))>>)),
                                      KV("name", Obj(<<>>))>>))>>) >>))>>]

NameT1 == Obj(<<KV("name", Str("t1"))>>)

\* validate(params, injections) calls.
DataRequests ==
    {<<Params("c1", a, Obj(<<>>), Undef, Undef, Undef), <<>> >> : a \in ActionTokens}
    \cup
    {<<Params("c1", ActionType.ADD, Obj(<<>>), d, Undef, Undef), <<>> >> :
        d \in {Str("t1"), Obj(<<>>), NameT1, TitleT2,
               Obj(<<KV("title", Null), KV("name", Str("t1"))>>)}}
    \cup
    {<<Params("c1", ActionType.ADD, Obj(<<>>), NameT1, Undef, Undef),
       <<KV("$userid", Str("t1"))>> >>}
    \cup
    {<<Params("c1", ActionType.UPDATE, Obj(<<>>), d, multi, merge), <<>> >> :
        d \in {NameT1, TitleT2, Obj(<<KV("$set", TitleT2)>>)},
        multi \in {Undef}, merge \in {Bool(TRUE), Undef}}
    \cup
    {<<Params("c1", ActionType.UPDATE, Obj(<<>>), NameT1, Bool(TRUE), Undef), <<>> >>}
    \cup
    {<<Params("c1", ActionType.ADD, Obj(<<>>), Obj(<<KV("total", Num(v))>>), Undef, Undef),
       <<>> >> : v \in -1..MaxNumber}
    \cup
    {<<Params("c1", ActionType.ADD, Obj(<<>>), Arr(<<NameT1>>), multi, Undef), <<>> >> :
        multi \in {Undef, Bool(TRUE)}}
    \cup
    {<<Params("c1", a, Obj(<<>>), Undef, Bool(TRUE), Undef), <<>> >> :
        a \in {ActionType.REMOVE, ActionType.READ}}
    \cup
    {<<Params("c1", ActionType.READ, q, Undef, Undef, Undef), <<>> >> :
        q \in {TitleT1, NameT1, Obj(<<KV("$or", Arr(<<TitleT1, TitleT2>>))>>),
               Obj(<<KV("$or", Arr(<<TitleT1, Obj(<<KV("id", Str("t1"))>>)>>))>>)}}

\* set(collection, rules), before the first request.
setData ==
    \E src \in DOMAIN DataSources :
        /\ ncalls = 0
        /\ Compiled("set", "c1", src, setInto(validators, rules, "c1", DataSources[src]))

\* validate(params, injections): the call, up to its first validator run.
validateData ==
    \E in \in DataRequests :
        /\ call.pc # "running"
        /\ ncalls < MaxCalls
        /\ call' = StartCall(rules, in[1], in[2])
        /\ ncalls' = ncalls + 1
        /\ prev' = [NoPrev EXCEPT !.request = in[1]]
        /\ UNCHANGED <<validators, rules, op, regOrder, nops, documents, requests>>

\* A mutant of revalidate: the errors list is kept by the engine from one
\* call to the next.
revalidateKeepingErrors ==
    \E fresh \in BOOLEAN :
        /\ call.pc \in {"returned", "threw"}
        /\ prev.n < MaxRepeats
        /\ call' = [StartCall(rules, IF fresh THEN prev.request ELSE call.params,
                              call.injections) EXCEPT !.errors = call.errors \o @]
        /\ prev' = [prev EXCEPT !.n = @ + 1,
                                !.equal = fresh \/ call.params = prev.request,
                                !.result = IF prev.n = 0 THEN call.result ELSE @]
        /\ UNCHANGED <<validators, rules, op, regOrder, nops, ncalls, documents, requests>>

\* validate(params, injections) once more after the call ended: with the
\* params object as the call left it, or with a fresh copy of the request
\* as it was first sent.  prev keeps the first request, the first result,
\* and whether the repeated request equals the first.
revalidate ==
    \E fresh \in BOOLEAN :
        /\ call.pc \in {"returned", "threw"}
        /\ prev.n < MaxRepeats
        /\ call' = StartCall(rules, IF fresh THEN prev.request ELSE call.params,
                             call.injections)
        /\ prev' = [prev EXCEPT !.n = @ + 1,
                                !.equal = fresh \/ call.params = prev.request,
                                !.result = IF prev.n = 0 THEN call.result ELSE @]
        /\ UNCHANGED <<validators, rules, op, regOrder, nops, ncalls, documents, requests>>

NextData == setData \/ validateData \/ validateStep \/ revalidate

SpecData == Init /\ [][NextData]_vars

----------------------------------------------------------------------------
\* Properties of validate.

Returned == call.pc = "returned"

\* The call ran the loop over the variants of its cell to its end.
LoopReturned == Returned /\ call.permRules # <<>>

HasRun(k, name, res) == \E i \in 1..Len(call.ran) : call.ran[i] = <<k, name, res>>

RanIn(k, name) == \E i \in 1..Len(call.ran) : call.ran[i][1] = k /\ call.ran[i][2] = name

VariantNames(k) == ObjKeys(call.permRules[k])

\* C1: whenever validate returns, its result holds exactly one of `matched`
\* and `errors`, never both; a result with `matched` carries none of the
\* errors that the earlier, failing variants left in the local list.
C1_MatchedXorErrors ==
    Returned =>
        /\ call.result.keys \in {{"matched"}, {"errors"}}
        /\ "matched" \in call.result.keys =>
              /\ call.result.errors = <<>>
              /\ call.result.matched # <<>>
        /\ "errors" \in call.result.keys =>
              /\ call.result.matched = <<>>
              /\ call.result.errors = call.errors

\* A call that matched its third variant after two variants failed.
C1_Witness ==
    /\ Returned
    /\ call.result.keys = {"matched"}
    /\ Len(call.errors) = 2
    /\ call.result.matched = call.permRules[3]

\* C2: the variants run in source order and the loop stops at the first
\* variant all of whose validators returned null: that variant is the
\* result's `matched`, every earlier variant has a validator that returned
\* non-null, and no validator run and no accessor lookup belongs to a later
\* variant.
C2_FirstMatchWins ==
    /\ \A i \in 1..Len(call.ran) - 1 :
          \/ call.ran[i + 1][1] = call.ran[i][1]
          \/ call.ran[i + 1][1] = call.ran[i][1] + 1 /\ call.ran[i][3] = "msg"
    /\ (Returned /\ "matched" \in call.result.keys) =>
          \E m \in 1..Len(call.permRules) :
              /\ call.result.matched = call.permRules[m]
              /\ \A n \in {VariantNames(m)[j] : j \in 1..Len(VariantNames(m))} :
                    HasRun(m, n, "null")
              /\ \A k \in 1..(m - 1) :
                    \E n \in {VariantNames(k)[j] : j \in 1..Len(VariantNames(k))} :
                        HasRun(k, n, "msg")
              /\ \A i \in 1..Len(call.ran) : call.ran[i][1] <= m
              /\ \A i \in 1..Len(call.gets) : call.gets[i] <= m

\* A read that matched the second variant of three, the third being one
\* whose query validator makes an accessor lookup.
C2_Witness ==
    /\ Returned
    /\ "matched" \in call.result.keys
    /\ Len(call.permRules) = 3
    /\ call.result.matched = call.permRules[2]
    /\ call.params.action = ActionType.READ

\* Position of a name in the order of registration.
RegIndex(name) == CHOOSE i \in 1..Len(regOrder) : regOrder[i] = name

\* C3: when no variant matches, the errors list has one entry per variant,
\* in source order; entry k names the first validator of variant k, in
\* registration order, that returned non-null, with its message, and the
\* validators registered after it are not run in variant k.
C3_ErrorPerVariant ==
    (LoopReturned /\ "errors" \in call.result.keys) =>
        /\ Len(call.result.errors) = Len(call.permRules)
        /\ \A k \in 1..Len(call.permRules) :
              LET e == call.result.errors[k]
                  names == {VariantNames(k)[j] : j \in 1..Len(VariantNames(k))}
              IN /\ e.type.t = "str"
                 /\ e.type.v \in names
                 /\ HasRun(k, e.type.v, "msg")
                 /\ \A m \in names \ {e.type.v} :
                       IF RegIndex(m) < RegIndex(e.type.v)
                       THEN HasRun(k, m, "null")
                       ELSE ~RanIn(k, m)

----------------------------------------------------------------------------
\* Properties of the structural checks of validate.

\* The step is the start of a validate call.
CallStarts == ncalls' = ncalls + 1

\* The permission name the action-to-permission mapping gives a token.
PermNameOf(token) ==
    PermissionType[CHOOSE f \in DOMAIN ActionType : ActionType[f] = token]

StructuralError(c, message) ==
    /\ c.result = ReturnErrors(<<ValidateError(Num(0), message)>>)
    /\ c.ran = <<>>
    /\ c.gets = <<>>

\* C4: a validate call for a collection that is not in the table, whatever
\* its action, or for a collection that has no rules under the permission
\* name of its action, returns exactly one error of type 0 with the
\* matching message, and runs no validator and makes no accessor call.
C4_StructuralFailure ==
    [][CallStarts =>
        LET p == call'.params IN
        /\ ~Contains(collections(rules), p.collection) =>
              StructuralError(call', "collection \"" \o p.collection \o "\" not found")
        /\ (/\ Contains(collections(rules), p.collection)
            /\ p.action \in ActionTokens
            /\ ~ObjHas(ObjGet(rules, p.collection), PermNameOf(p.action))) =>
              StructuralError(call',
                  p.collection \o " " \o p.action \o " don't has any rules")]_vars

----------------------------------------------------------------------------
\* Properties of the compiler and the registry.

\* The step is a register / load / add / set call.
OpStep(name) == nops' = nops + 1 /\ op'.name = name

Registered_(name) == ObjHas(validators, name)

KeySet(o) == {o[i].k : i \in 1..Len(o)}

\* The validator names the variants of a collection's rules mention.
Mentioned(rules_) ==
    UNION {UNION {KeySet(NormalizeRules(rules_[i].v)[j].v) :
                    j \in 1..Len(NormalizeRules(rules_[i].v))} :
           i \in {i \in 1..Len(rules_) : rules_[i].k # "$schema"}}

\* The rules objects the last load / add / set call was given.
OpRules ==
    IF op.name = "load" THEN {LoadRules(op.arg)[i].v : i \in 1..Len(LoadRules(op.arg))}
    ELSE IF op.name \in {"add", "set"} THEN {RuleSources[op.arg]}
    ELSE {}

\* C5: a load / add / set call whose rules mention a validator name that
\* is not registered fails: no such call succeeds.
C5_UnknownValidatorRejected ==
    (op.name \in {"load", "add", "set"} /\ op.ok) =>
        \A rules_ \in OpRules : \A name \in Mentioned(rules_) : Registered_(name)

\* Every compiled variant of the table.
StoredVariants(table) ==
    UNION {UNION {{table[i].v[j].v[k] : k \in 1..Len(table[i].v[j].v)} :
                    j \in 1..Len(table[i].v)} :
           i \in 1..Len(table)}

\* C6 as stated: at any time every compiled variant of the table holds a
\* processor for exactly the currently registered validator names.
C6_ExactlyRegistered ==
    \A v \in StoredVariants(rules) : ObjKeys(v) = ObjKeys(validators)

\* The step stored the entry: the table before it does not hold it.
StoredBy(table, entry) == ~Contains(table, entry)

\* Every processor of the table is for a name of the registry, with the
\* handler the registry has for it.
OnlyRegistered(table, reg) ==
    \A v \in StoredVariants(table) : \A i \in 1..Len(v) :
        /\ ObjHas(reg, v[i].k)
        /\ v[i].v.name = v[i].k
        /\ v[i].v.handler = ObjGet(reg, v[i].k)

\* The processors of a compiled cell have the configs its raw rules give.
ConfigsAsGiven(cell, raw) ==
    /\ Len(cell) = Len(raw)
    /\ \A j \in 1..Len(cell) : \A i \in 1..Len(cell[j]) :
          cell[j][i].v.config = RawGet(raw[j].v, cell[j][i].k)

\* The same, for every cell of a collection's rules src but $schema.
ConfigsOfSource(src, stored) ==
    \A i \in 1..Len(src) :
        src[i].k # "$schema" =>
            ConfigsAsGiven(ObjGet(stored, src[i].k), NormalizeRules(src[i].v))

\* C6, amended: a variant holds a processor for exactly the validator
\* names registered when its load / add / set call compiled it, each with
\* the registered handler and with the config the raw rule gives that name
\* (undefined when it gives none); register leaves the stored variants as
\* they are, so after every call they hold only registered names, but not
\* the validators registered later.
C6_ExactlyRegisteredAtCompile ==
    [][/\ OpStep("register") => rules' = rules
       /\ validators' # validators => OnlyRegistered(rules', validators')
       /\ rules' # rules =>
            /\ OnlyRegistered(rules', validators')
            /\ \A i \in 1..Len(rules') :
                  StoredBy(rules, rules'[i]) =>
                      \A v \in StoredVariants(<<rules'[i]>>) :
                          ObjKeys(v) = ObjKeys(validators)
            /\ op'.name \in {"add", "set"} =>
                  ConfigsOfSource(RuleSources[op'.arg], ObjGet(rules', op'.target))]_vars

\* A validator registered after a collection was compiled: the stored
\* variants do not hold it.
C6_Witness ==
    /\ op.name = "register" /\ op.ok
    /\ rules # <<>>
    /\ \A v \in StoredVariants(rules) : ~ObjHas(v, op.target)

\* stored is what the rules src alone compile to: the cells of src and $schema.
Replaced(src, stored, reg) ==
    /\ KeySet(stored) = KeySet(src) \cup {"$schema"}
    /\ \A i \in 1..Len(src) :
          src[i].k # "$schema" =>
              ObjGet(stored, src[i].k) = instantiateValidators(reg, src[i].v).v

\* C7: add on a collection that is in the table fails and leaves the table
\* as it was; set on a collection that is in the table replaces its
\* compiled rules by those of the new rules alone and touches no other
\* collection; no collection name is in the table twice.
C7_AddRejectsSetReplaces ==
    /\ [](\A i, j \in 1..Len(rules) : rules[i].k = rules[j].k => i = j)
    /\ [][(OpStep("add") /\ Contains(collections(rules), op'.target)) =>
            (~op'.ok /\ rules' = rules)]_vars
    /\ [][(OpStep("set") /\ op'.ok /\ Contains(collections(rules), op'.target)) =>
            /\ collections(rules') = collections(rules)
            /\ \A c \in KeySet(rules) \ {op'.target} : ObjGet(rules', c) = ObjGet(rules, c)
            /\ Replaced(RuleSources[op'.arg], ObjGet(rules', op'.target), validators)]_vars

\* add was called for a collection that is in the table, and failed.
C7_Witness ==
    /\ op.name = "add" /\ ~op.ok
    /\ op.err = "add collection rules failed: " \o op.target \o " already exists"
    /\ Contains(collections(rules), op.target)

\* C8: a load call that fails leaves the table as it was before the call.
C8_FailedLoadChangesNothing ==
    [][(OpStep("load") /\ ~op'.ok) => rules' = rules]_vars

\* C9: register fails when the name is empty, when the handler is not
\* callable, or when the name is registered already, the built-ins
\* included; a failed register leaves the registry, and so the handler
\* registered for the name, as it was.
C9_RegisterRejects ==
    /\ [](\A i \in 1..Len(BUILT_IN_VALIDATORS) :
            /\ Registered_(BUILT_IN_VALIDATORS[i].k)
            /\ ObjGet(validators, BUILT_IN_VALIDATORS[i].k) = BUILT_IN_VALIDATORS[i].v)
    /\ [][(/\ OpStep("register")
           /\ \/ op'.target = ""
              \/ ~IsFunction(op'.arg)
              \/ Registered_(op'.target)) =>
            (~op'.ok /\ validators' = validators)]_vars
    /\ [][(OpStep("register") /\ ~op'.ok) => validators' = validators]_vars

\* register was called for a name a caller had registered, with another
\* handler, and failed: the first handler is the registered one.
C9_Witness ==
    /\ op.name = "register" /\ ~op.ok
    /\ op.target = "custom" /\ op.arg = "H2"
    /\ ObjGet(validators, "custom") = "H1"

\* C10: set with a $schema entry that is a field -> field-rule mapping
\* succeeds and stores under $schema one variant whose data processor has
\* the mapping as its config.
C10_SchemaCompiled ==
    (/\ op.name = "set"
     /\ ObjHas(RuleSources[op.arg], "$schema")
     /\ ObjGet(RuleSources[op.arg], "$schema").t = "obj") =>
        /\ op.ok
        /\ Contains(collections(rules), op.target)
        /\ LET cell == ObjGet(ObjGet(rules, op.target), "$schema")
           IN /\ Len(cell) = 1
              /\ ObjGet(cell[1], "data").config = ObjGet(RuleSources[op.arg], "$schema")

----------------------------------------------------------------------------
\* An engine that is loaded more than once.

\* load(rules) calls: rules objects, collection -> name of its rules.
ReloadInputs ==
    [both |-> <<KV("c1", "bool"), KV("c2", "variants")>>,
     third |-> <<KV("c3", "variants")>>,
     mixed |-> <<KV("c3", "bool"), KV("c1", "variants")>>]

ReloadRules(id) == [i \in 1..Len(ReloadInputs[id]) |->
                      KV(ReloadInputs[id][i].k, RuleSources[ReloadInputs[id][i].v])]

\* load(rules)
reload ==
    \E id \in DOMAIN ReloadInputs :
        Compiled("load", "", id, loadInto(validators, rules, ReloadRules(id)))

NextLoad == reload \/ validate \/ validateStep

SpecLoad == Init /\ [][NextLoad]_vars

----------------------------------------------------------------------------
\* The permission name a call resolved and the variants it evaluates.

\* The call has rules to evaluate: its collection is in the table and has
\* rules under the permission name of its action.
HasRulesFor(c, table) ==
    /\ Contains(collections(table), c.params.collection)
    /\ c.params.action \in ActionTokens
    /\ ObjHas(ObjGet(table, c.params.collection), PermNameOf(c.params.action))

\* C11: a validate call for any of the six actions on a collection that
\* has rules under the permission name of the action (add, read, update,
\* remove, count, watch) evaluates those variants and returns matched or
\* errors: it never ends in a throw of the name resolution.
C11_ActionsResolved ==
    (call.pc # "idle" /\ HasRulesFor(call, rules)) =>
        /\ call.result.err # "getPermissionName() unknow action"
        /\ call.permRules =
              ObjGet(ObjGet(rules, call.params.collection), PermNameOf(call.params.action))

\* The config a variant's validator was instantiated with.
ConfigOf(variant, vname) == ObjGet(variant, vname).config

\* C12: a validator that a variant does not mention (config undefined) is a
\* no-op: each of its runs returns null, whatever the request.
C12_UnmentionedIsNoOp ==
    \A i \in 1..Len(call.ran) :
        ConfigOf(call.permRules[call.ran[i][1]], call.ran[i][2]).t = "undef"
            => call.ran[i][3] = "null"

----------------------------------------------------------------------------
\* The data validator.

\* The errors entry that run i of the call recorded (for a run that
\* returned a message).
ErrorAt(c, i) ==
    LET n == Cardinality({j \in 1..i : c.ran[j][3] = "msg"})
    IN IF n \in 1..Len(c.errors) THEN c.errors[n] ELSE [type |-> Undef, error |-> ""]

\* Run i of the call is a run of the data validator with a config.
DataRun(c, i) ==
    /\ c.ran[i][2] = "data"
    /\ ConfigOf(c.permRules[c.ran[i][1]], "data").t # "undef"

\* Run i of the call rejected its variant with this message, recorded with
\* type data.
DataRejected(c, i, message) ==
    /\ c.ran[i][3] = "msg"
    /\ ErrorAt(c, i) = [type |-> Str("data"), error |-> message]

C14_DataPreconditions ==
    \A i \in 1..Len(call.ran) :
        LET data == call.params.data IN
        DataRun(call, i) =>
            /\ data.t = "undef" => DataRejected(call, i, "data is undefined")
            /\ data.t \notin {"undef", "obj"} => DataRejected(call, i, "data must be an object")
            /\ data = Obj(<<>>) => DataRejected(call, i, "data is empty")

\* An add whose data is the empty mapping was rejected by the data
\* validators of both variants with "data is empty".
C14_Witness ==
    /\ Returned
    /\ call.params.action = ActionType.ADD
    /\ call.params.data = Obj(<<>>)
    /\ HasRun(1, "data", "msg") /\ HasRun(2, "data", "msg")
    /\ call.result.errors = <<[type |-> Str("data"), error |-> "data is empty"],
                              [type |-> Str("data"), error |-> "data is empty"]>>

----------------------------------------------------------------------------
\* The field rules of the data validator.

\* The context a validator of the call runs in, the accessor answering.
Context(c) == [params |-> c.params, injections |-> c.injections, db |-> Db, fault |-> FALSE]

\* The call is about to run the data validator of a variant, its config a
\* mapping of fields and the request's data a mapping.
DataStep(c) ==
    /\ c.pc = "running"
    /\ c.permRules[c.vi][c.pi].k = "data"
    /\ c.permRules[c.vi][c.pi].v.config.t = "obj"
    /\ c.params.data.t = "obj"

\* The fields the data validator about to run is configured with.
DataConfig(c) == c.permRules[c.vi][c.pi].v.config.v

\* The rule of this name among the rules of a field (a mapping, or a
\* string, which stands for a condition).
RuleOf(rules_, name) == IF rules_.t = "obj" THEN RawGet(rules_.v, name) ELSE Undef

\* validateField on an add, for a field whose flattened value is null or
\* undefined.
FieldOnAdd(field, data, rules_, ctx) ==
    LET r == validateField(field, data, rules_, ctx)
        default == RuleOf(rules_, "default")
        withDefault == Obj(ObjSet(data.v, field, default))
    IN RawGet(flattenData(data), field).t \in {"undef", "null"} =>
          IF default.t \notin {"undef", "null"}
          THEN /\ r.data = withDefault
               /\ r = validateField(field, withDefault, rules_, ctx)
          ELSE /\ RuleOf(rules_, "required") = Bool(TRUE) =>
                      r = Fail(field \o " is required", data, 0)
               /\ RuleOf(rules_, "required") \in {Undef, Bool(FALSE)} => r = Pass(data, 0)

\* C15: on an add request, for a configured field whose flattened value is
\* null or undefined: a non-null default is written into the request's
\* data mapping and the remaining value checks run against it; without a
\* default the result is "<field> is required" when required is true, and
\* null otherwise.  After a data validator passed, the request's data
\* carries a value for every field that has a default.
C15_AddDefaults ==
    /\ (DataStep(call) /\ call.params.action = ActionType.ADD) =>
          \A n \in 1..Len(DataConfig(call)) :
              FieldOnAdd(DataConfig(call)[n].k, call.params.data,
                         DataConfig(call)[n].v, Context(call))
    /\ \A i \in 1..Len(call.ran) :
          (DataRun(call, i) /\ call.ran[i][3] = "null"
                /\ call.params.action = ActionType.ADD) =>
              \A e \in KeySet(ConfigOf(call.permRules[call.ran[i][1]], "data").v) :
                  RuleOf(RawGet(ConfigOf(call.permRules[call.ran[i][1]], "data").v, e),
                         "default").t \notin {"undef", "null"} =>
                      RawGet(flattenData(call.params.data), e).t \notin {"undef", "null"}

\* An add without title: the first variant answered "title is required",
\* the second wrote its default into the request's data and matched.
C15_Witness ==
    /\ Returned
    /\ prev.request.data = NameT1
    /\ call.params.data = Obj(<<KV("name", Str("t1")), KV("title", Str("t1"))>>)
    /\ call.result.keys = {"matched"}
    /\ call.errors = <<[type |-> Str("data"), error |-> "title is required"]>>

\* C16: on an update request, a configured field whose flattened value is
\* undefined produces no non-match (required, default and the value checks
\* are skipped), and the call leaves the request's data as it was.
C16_UpdateSkipsAbsent ==
    /\ (DataStep(call) /\ call.params.action = ActionType.UPDATE) =>
          \A n \in 1..Len(DataConfig(call)) :
              RawGet(flattenData(call.params.data), DataConfig(call)[n].k).t = "undef" =>
                  validateField(DataConfig(call)[n].k, call.params.data,
                                DataConfig(call)[n].v, Context(call))
                      = Pass(call.params.data, 0)
    /\ (call.pc # "idle" /\ call.params.action = ActionType.UPDATE) =>
          call.params.data = prev.request.data

\* An update without title matched a variant whose title is required, has
\* a default and must be "t2"; the data is as it was sent.
C16_Witness ==
    /\ Returned
    /\ call.params.action = ActionType.UPDATE
    /\ call.params.data = NameT1
    /\ HasRun(1, "data", "null")
    /\ call.result.keys = {"matched"}
    /\ ConfigOf(call.permRules[1], "data").t = "obj"
    /\ RuleOf(RawGet(ConfigOf(call.permRules[1], "data").v, "title"), "required") = Bool(TRUE)

----------------------------------------------------------------------------
\* Faults of a validator run.

\* The rule keys outside RULE_KEYS in the field rules of this config.
UnknownRulesIn(config) ==
    IF config.t # "obj" THEN {}
    ELSE UNION {IF config.v[n].v.t = "obj" THEN KeySet(config.v[n].v.v) \ RULE_KEYS ELSE {} :
                n \in 1..Len(config.v)}

\* The unknown rule keys of the data and query configs of the call's variants.
UnknownRules(c) ==
    UNION {UnknownRulesIn(RawGet(c.permRules[k], "data").config)
               \cup UnknownRulesIn(RawGet(c.permRules[k], "query").config) :
           k \in 1..Len(c.permRules)}

\* C17: a field-rule key outside the nine known keys is fatal, not a
\* non-match: no errors entry is recorded for it (and so validate does not
\* go on to the next variant because of it).
C17_UnknownRuleIsFatal ==
    \A i \in 1..Len(call.errors) : \A x \in UnknownRules(call) :
        call.errors[i].error # "config error: unknown rule [" \o x \o "]"

\* C18: a condition expression (of a field rule, or a string multi config)
\* that fails to parse or to evaluate is surfaced as a non-match of its
\* variant: no validate call ends with the failure thrown to its caller.
C18_ExpressionFailureIsNonMatch ==
    ~(call.pc = "threw" /\ call.result.err = "script error")

\* C19: when the accessor's get raises during an exists or unique check,
\* validate fails with that fault: it returns neither matched nor errors,
\* records no non-match for the variant, and runs no further validator.
C19_AccessorFaultPropagates ==
    [][/\ (call.pc = "running" /\ Len(call'.gets) > Len(call.gets)
               /\ call' = StepCall(call, TRUE)) =>
              /\ call'.pc = "threw"
              /\ call'.result = Thrown("accessor error")
              /\ call'.errors = call.errors
       /\ (call.pc = "threw" /\ ~CallStarts) => call' = call]_vars

\* The accessor raised in the first variant of several: the call ended
\* without a result, with no error recorded and the other variants not run.
C19_Witness ==
    /\ call.pc = "threw"
    /\ call.result = Thrown("accessor error")
    /\ call.gets # <<>>
    /\ call.errors = <<>>
    /\ call.vi = 1
    /\ Len(call.permRules) > 1

----------------------------------------------------------------------------
\* Repeated calls.

\* The call is a repeat that ended, and the accessor raised neither in it
\* nor in the first call.
RepeatEnded ==
    /\ prev.n >= 1
    /\ call.pc \in {"returned", "threw"}
    /\ call.result.err # "accessor error"
    /\ prev.result.err # "accessor error"

----------------------------------------------------------------------------
\* Loading twice.

\* What load(rules) leaves on a fresh engine: [ok, err, v].
LoadedAlone(id) == loadInto(validators, <<>>, ReloadRules(id))

\* C21 (as claimed): load(R) followed by load(R') on a fresh engine yields
\* the table that load(R') yields on a fresh engine.
C21_SecondLoadAlone ==
    (nops = 2 /\ op.name = "load") => rules = LoadedAlone(op.arg).v

\* The table after is the table before with the entries of alone added.
AddedTo(before, after, alone) ==
    /\ KeySet(after) = KeySet(before) \cup KeySet(alone)
    /\ \A c \in KeySet(before) : ObjGet(after, c) = ObjGet(before, c)
    /\ \A c \in KeySet(alone) : ObjGet(after, c) = ObjGet(alone, c)

\* C21 (amended): a load(R') on an engine that was loaded before adds to
\* the table, for the collections of R', the entries that load(R') yields
\* on a fresh engine, and keeps the entries the table had, provided R'
\* names no collection of the table; when it names one, the load fails.
C21_LoadAddsToTable ==
    [][OpStep("load") =>
          IF KeySet(rules) \cap KeySet(ReloadRules(op'.arg)) = {}
          THEN /\ op'.ok = LoadedAlone(op'.arg).ok
               /\ AddedTo(rules, rules', LoadedAlone(op'.arg).v)
          ELSE ~op'.ok]_vars

\* Two loads of rules without a collection in common succeeded: the table
\* holds the collections of both.
C21_Witness ==
    /\ nops = 2
    /\ op = Op("load", "", "third", [ok |-> TRUE, err |-> "", v |-> rules])
    /\ KeySet(rules) = {"c1", "c2", "c3"}
    /\ ObjGet(rules, "c3") = ObjGet(LoadedAlone("third").v, "c3")

----------------------------------------------------------------------------
\* Calls in flight while the engine changes.

\* The variants the table holds now for the request of the call.
CellNow(c, table) == ObjGet(ObjGet(table, c.params.collection), PermNameOf(c.params.action))

\* C22: a validate call that is suspended while set replaces the rules of
\* its collection, or register adds a validator, finishes against the
\* variants it selected before the loop: they stay the variants of the
\* call, and every later step of the call is a validator run on them,
\* never on the variants the table holds by then.
C22_ConsistentSnapshot ==
    [][(call.pc = "running" /\ ~CallStarts) =>
          /\ call'.permRules = call.permRules
          /\ call' # call => call' \in {StepCall(call, FALSE), StepCall(call, TRUE)}]_vars

\* A call made an accessor lookup and is in flight after a set replaced
\* the rules of its collection: the table holds other variants than the
\* call evaluates.
C22_Witness ==
    /\ call.pc = "running"
    /\ call.gets # <<>>
    /\ op.name = "set" /\ op.ok /\ op.target = call.params.collection
    /\ HasRulesFor(call, rules)
    /\ CellNow(call, rules) # call.permRules

----------------------------------------------------------------------------
\* The whitelist of the query validator.

\* The logic and query operators a query may carry as keys.
QUERY_OPERATORS ==
    {"$or", "$and", "$not", "$nor", "$in", "$nin", "$eq", "$neq", "$gt", "$gte",
     "$lt", "$lte", "$exists", "$size", "$all", "$regex", "$elemMatch"}

\* The field names that occur in a query, at top level or under operator
\* keys, the elements of their array operands included.
RECURSIVE QueryFieldNames(_)
QueryFieldNames(q) ==
    IF q.t = "obj"
    THEN UNION {IF q.v[n].k \in QUERY_OPERATORS THEN QueryFieldNames(q.v[n].v)
                ELSE {q.v[n].k} : n \in 1..Len(q.v)}
    ELSE IF q.t = "arr" THEN UNION {QueryFieldNames(q.v[n]) : n \in 1..Len(q.v)}
    ELSE {}

\* The fields a query config allows: its elements, or its keys.
AllowFields(config) ==
    IF config.t = "arr" THEN [n \in 1..Len(config.v) |-> ValueToString(config.v[n])]
    ELSE ObjKeys(config.v)

\* The call is about to run the query validator of a variant, its config a
\* whitelist and the request's query a mapping.
QueryStep(c) ==
    /\ c.pc = "running"
    /\ c.permRules[c.vi][c.pi].k = "query"
    /\ c.permRules[c.vi][c.pi].v.config.t \in {"arr", "obj"}
    /\ c.params.query.t = "obj"

\* C23: the whitelist check of the query validator accepts a query exactly
\* when every field name that occurs in it, at top level or nested under
\* operator keys (inside their array operands too), is whitelisted; the
\* operator keys themselves are not taken as fields.
C23_WhitelistStripsOperators ==
    QueryStep(call) =>
        ((isAllowedFields(ObjKeys(call.params.query.v),
                          AllowFields(call.permRules[call.vi][call.pi].v.config)) = "")
         <=> (\A f \in QueryFieldNames(call.params.query) :
                Contains(AllowFields(call.permRules[call.vi][call.pi].v.config), f)))

----------------------------------------------------------------------------
\* The multi validator.

\* The call is about to run the multi validator of a variant.
MultiStep(c) == c.pc = "running" /\ c.permRules[c.vi][c.pi].k = "multi"

\* The bindings a multi expression is evaluated with.
MultiGlobal(ctx) ==
    ObjSet(ObjSet(ObjSet(ctx.injections, "query", ctx.params.query),
                  "data", ctx.params.data), "multi", ctx.params.multi)

\* allow: the config if it is a boolean, the truthiness of the expression
\* if it is a string, and (action is read) if the config is absent.
Allow(config, ctx) ==
    CASE config.t = "bool" -> config.v
      [] config.t = "str" -> execScript(config.v, MultiGlobal(ctx)).v
      [] OTHER -> ctx.params.action = ActionType.READ

\* The result the multi validator is to give.
MultiResult(config, ctx) ==
    IF ctx.params.action = ActionType.ADD /\ ctx.params.data.t = "arr"
       /\ ~Truthy(ctx.params.multi)
    THEN Out("msg", "multi insert operation denied", 0, ctx.params)
    ELSE IF Truthy(ctx.params.multi) /\ ~Allow(config, ctx)
    THEN Out("msg", "multi operation denied", 0, ctx.params)
    ELSE Out("null", "", 0, ctx.params)

\* C24: the multi validator answers "multi insert operation denied" for an
\* add whose data is a sequence while multi is falsy, whatever the config;
\* otherwise "multi operation denied" exactly when multi is truthy and
\* allow is false; and null in every other case.
C24_MultiResult ==
    MultiStep(call) =>
        MultiHandler(call.permRules[call.vi][call.pi].v.config, Context(call))
            = MultiResult(call.permRules[call.vi][call.pi].v.config, Context(call))

----------------------------------------------------------------------------
\* The number rule.

\* The number rule [min] or [min, max] against the integer v of a field:
\* what the validator is to answer.
NumberResult(field, options, v, data) ==
    IF v >= options[1].v /\ (Len(options) >= 2 => v <= options[2].v)
    THEN Pass(data, 0)
    ELSE Fail(field \o " should >= " \o ToString(options[1].v)
                \o (IF Len(options) >= 2 THEN " and <= " \o ToString(options[2].v) ELSE ""),
              data, 0)

\* C25: for a field configured with number: [min, max] an integer value v
\* is accepted exactly when min <= v <= max, both bounds included, and
\* with number: [min] exactly when v >= min; any other value is reported
\* as "<field> should >= <min>", followed by " and <= <max>" only when a
\* max was configured.
C25_NumberRange ==
    DataStep(call) =>
        \A n \in 1..Len(DataConfig(call)) :
            LET field == DataConfig(call)[n].k
                options == RuleOf(DataConfig(call)[n].v, "number")
                v == RawGet(flattenData(call.params.data), field)
            IN (options.t = "arr" /\ v.t = "num") =>
                  _validate("number", options, field, flattenData(call.params.data),
                            call.params.data, Context(call))
                      = NumberResult(field, options.v, v.v, call.params.data)

\* A value equal to the max of number: [1, 3] matched the variant.
C25_Witness ==
    /\ Returned
    /\ call.params.data = Obj(<<KV("total", Num(3))>>)
    /\ call.vi = 1
    /\ HasRun(1, "data", "null")
    /\ call.result.keys = {"matched"}

----------------------------------------------------------------------------
\* Denials.

\* C26: whenever validate denies a request (returns without matched), the
\* errors list it returns is not empty, also when the cell of the request
\* was compiled from an empty sequence of variants.
C26_DenialHasReason ==
    (Returned /\ "matched" \notin call.result.keys) => call.result.errors # <<>>

----------------------------------------------------------------------------
\* Concurrent requests through the entry: execute validates the request
\* and, on a match, forwards it to the accessor, which inserts the data.

\* The rules of the collection the requests are made on, by name.
EntrySources ==
    [unique |->
        <<KV("add", Rule(Obj(<<KV("title", Obj(<<KV("required", Bool(TRUE)),
                                                 KV("unique", Bool(TRUE))>>))>>)))>>,
     required |->
        <<KV("add", Rule(Obj(<<KV("title", Obj(<<KV("required", Bool(TRUE))>>))>>)))>>,
     many |->
        <<KV("add", Obj(<<KV("data", Obj(<<KV("title", Obj(<<KV("unique", Bool(TRUE))>>))>>)),
                          KV("query", NoFields), KV("multi", Bool(TRUE))>>))>>,
     readonly |->
        <<KV("read", Obj(<<KV("query", NoFields)>>))>>]

\* The add requests execute is called with.
EntryRequests ==
    {Params("c1", ActionType.ADD, Obj(<<>>), d, multi, Undef) :
        d \in {TitleT1, TitleT2, Obj(<<KV("title", Str("t3"))>>), NameT1},
        multi \in {Undef}}
    \cup {Params("c1", ActionType.ADD, Obj(<<>>), d, Bool(TRUE), Undef) :
             d \in {TitleT1, Arr(<<TitleT1>>)}}

\* What findOne answers from: the documents that were there before, and
\* the fields of the documents added since.
DbOf(docs) ==
    Db \cup UNION {{<<"c1", docs[n].v[f].k, docs[n].v[f].v>> : f \in 1..Len(docs[n].v)} :
                      n \in {m \in 1..Len(docs) : docs[m].t = "obj"}}

\* One validator run of a call, the accessor answering from db.
StepCallOn(c, fault, db) ==
    AfterRun(c, ProcessorRun(c.permRules[c.vi][c.pi].v,
                             [params |-> c.params, injections |-> c.injections,
                              db |-> db, fault |-> fault]))

\* Where execute stands once its validate call stands at c: waiting for
\* it, failed with what it raised, refused with its errors, or about to
\* forward the request to the accessor.
Validated(c) ==
    [pc |-> CASE c.pc = "running" -> "validating"
              [] c.pc = "threw" -> "failed"
              [] "matched" \in c.result.keys -> "permitted"
              [] OTHER -> "denied",
     call |-> c]

\* MongoAccessor.add: insertOne(data), or insertMany of the documents of
\* data when multi is set.
MongoAdd(docs, params) ==
    LET data == IF Truthy(params.data) THEN params.data ELSE Obj(<<>>)
    IN IF ~Truthy(params.multi) THEN Append(docs, data)
       ELSE IF data.t = "arr" THEN docs \o data.v
       ELSE Append(docs, data)

\* set(collection, rules), before the first request.
setEntry ==
    \E src \in DOMAIN EntrySources :
        /\ \A i \in Requests : requests[i].pc = "idle"
        /\ Compiled("set", "c1", src, setInto(validators, rules, "c1", EntrySources[src]))

\* execute(params): the validate call, up to its first validator run.
execute ==
    \E i \in Requests, params \in EntryRequests :
        /\ requests[i].pc = "idle"
        /\ requests' = [requests EXCEPT ![i] = Validated(StartCall(rules, params, <<>>))]
        /\ UNCHANGED <<validators, rules, op, call, regOrder, nops, ncalls, prev, documents>>

\* execute, resumed in its validate call: the next validator run, its
\* lookups answered from the collection as it is now, or raising.
executeStep ==
    \E i \in Requests, fault \in BOOLEAN :
        /\ requests[i].pc = "validating"
        /\ requests' = [requests EXCEPT ![i] =
                            Validated(StepCallOn(requests[i].call, fault, DbOf(documents)))]
        /\ UNCHANGED <<validators, rules, op, call, regOrder, nops, ncalls, prev, documents>>

\* execute, after a match: the request is forwarded to the accessor, which
\* inserts its data.
forward ==
    \E i \in Requests :
        /\ requests[i].pc = "permitted"
        /\ documents' = MongoAdd(documents, requests[i].call.params)
        /\ requests' = [requests EXCEPT ![i].pc = "inserted"]
        /\ UNCHANGED <<validators, rules, op, call, regOrder, nops, ncalls, prev>>

NextEntry == setEntry \/ execute \/ executeStep \/ forward

SpecEntry == Init /\ [][NextEntry]_vars

\* The add cell of the collection c1 is configured with title unique in
\* every variant.
TitleUnique(table) ==
    /\ ObjHas(table, "c1")
    /\ ObjHas(ObjGet(table, "c1"), "add")
    /\ \A k \in 1..Len(ObjGet(ObjGet(table, "c1"), "add")) :
          LET config == ConfigOf(ObjGet(ObjGet(table, "c1"), "add")[k], "data")
          IN /\ config.t = "obj"
             /\ RuleOf(RawGet(config.v, "title"), "unique") = Bool(TRUE)

\* The documents added to the collection that hold value in field.
Holding(docs, field, value) ==
    {n \in 1..Len(docs) : docs[n].t = "obj" /\ RawGet(docs[n].v, field) = value}

\* C27: of two concurrent add requests that carry the same value for a
\* field configured unique, at most one is permitted and inserted, in every
\* interleaving of their lookups and their inserts: the collection never
\* holds two documents with that value in the field.
C27_UniqueUnderConcurrency ==
    TitleUnique(rules) =>
        \A v \in {Str("t1"), Str("t2"), Str("t3")} :
            Cardinality(Holding(documents, "title", v)) <= 1

====
